---- MODULE Spec2Model ----
(***************************************************************************)
(* State-machine model of src/app.py: the VirtualBalance ledger, its Risk  *)
(* Monitor thread, its Reconciliation Sync thread, the /webhook signal     *)
(* handler and the /resume handler.                                        *)
(*                                                                         *)
(* Number representation.  The program computes with Python floats.  The   *)
(* model computes the same expressions exactly on a fixed-point grid:      *)
(*   money (balances, pnl)  : integer thousandths of a dollar              *)
(*   quantity               : integer thousandths of a contract            *)
(*   price                  : integer dollars                              *)
(*   tp_price / sl_price    : integer 1/10000 of a dollar                  *)
(*   max_drawdown           : whole percent, rounded down                  *)
(* so quantity * price is money, and round(x, 3) of the program is         *)
(* rounding to the grid.  Floating-point rounding error is not modelled.   *)
(***************************************************************************)
EXTENDS Integers, Sequences, FiniteSets, TLC

\* ------------------------------------------------------------------ CONFIG
LEVERAGE == 25
RISK_PERCENTAGE == 15
DEBOUNCE_SEC == 2
MAX_PRICE_FAILURES == 5
\* TAKE_PROFIT_PCT = 1.3 and STOP_LOSS_PCT = 0.75, in 1/100 of a percent
TAKE_PROFIT_PCT == 130
STOP_LOSS_PCT == 75
\* PHASE_1_THRESHOLD = 2000.0 dollars
PHASE_1_THRESHOLD == 2000000
\* PHASE_1_REINVEST = 1.0 and PHASE_2_REINVEST = 0.05, in percent
PHASE_1_REINVEST == 100
PHASE_2_REINVEST == 5
PROFIT_RESET_THRESHOLD == 2
MAX_DRAWDOWN_STOP == 50
\* the literals of should_trade: 20.0 percent, 5 losses, 0.3 of initial_balance
DAILY_DRAWDOWN_LIMIT == 20
CONSECUTIVE_LOSS_LIMIT == 5
MIN_BALANCE_TENTHS == 3

\* ------------------------------------------------------------------ bounds
\* the number of POST signals the handlers admit past the debounce test
MaxSignals == 1
\* the same where two requests race, and where the ledger trades on
MaxRaceSignals == 2
MaxResetSignals == 2
MaxOutageSignals == 1
MaxResumeSignals == 2
\* the calendar runs from day 0 to day MaxDay
MaxDay == 1

\* the same for the specification of the ledger over several trades
MaxLedgerSignals == 3
LedgerBalances == {20000, 2000000}
LedgerQtys == {5000, 10000, 35000}

\* INITIAL_BALANCE values a deployment may configure (20.0 is the default)
InitialBalances == {2000000}
\* prices the exchange may report
Prices == {100, 200}
RacePrices == {100}
\* quantities of a position opened on the exchange by hand
ExternalQtys == {40000}

Handlers == {"h1", "h2"}
Threads == Handlers \cup {"mon", "sync", "res"}
Sides == {"long", "short"}
Actions == {"BUY", "SELL", "CLOSE"}

NoThread == "none"
NoPosition == [side |-> "none"]
NoPrice == 0
NoDate == -1

VARIABLES
    vb,               \* the fields of the VirtualBalance singleton
    saved,            \* the content of STATE_FILE
    position_lock,    \* the thread holding vb.position_lock, or NoThread
    stop_monitoring,  \* the threading.Event of the monitor
    pc,               \* the position of every thread
    frame,            \* per thread: the arguments of its pending ledger call
    returned,         \* per handler: what its last ledger call returned
    hl,               \* per handler: the locals of webhook()
    consecutive_failures, \* the local of monitor_position
    sy,               \* the locals of one sync_with_bitget iteration
    exchange,         \* the position the exchange holds on SYMBOL
    since_last_signal, \* time.time() - last_signal_time, saturated at DEBOUNCE_SEC
    today,            \* datetime.now().date(), as a day number
    signals,          \* how many POST signals passed the debounce test so far
    day_start_balance \* history: vb.current_balance when the day `today` began

vars == <<vb, saved, position_lock, stop_monitoring, pc, frame, returned, hl,
          consecutive_failures, sy, exchange, since_last_signal, today, signals,
          day_start_balance>>

\* ------------------------------------------------------------- arithmetic
Max(a, b) == IF a >= b THEN a ELSE b
Min(a, b) == IF a <= b THEN a ELSE b
Abs(a) == IF a >= 0 THEN a ELSE -a

\* floor(a * b / c) and (a * b) mod c for c > 0, b >= 0, without forming a * b
MulDivQ(a, b, c) == (a \div c) * b + (((a % c) * b) \div c)
MulDivR(a, b, c) == ((a % c) * b) % c

\* round(a * b / c) as Python rounds: to nearest, ties to even
RoundMulDiv(a, b, c) ==
    LET q == MulDivQ(a, b, c)
        r == MulDivR(a, b, c)
    IN  IF 2 * r < c THEN q
        ELSE IF 2 * r > c THEN q + 1
        ELSE IF q % 2 = 0 THEN q ELSE q + 1

\* ------------------------------------------------------ VirtualBalance
\* VirtualBalance.__init__
NewVirtualBalance(initial_balance) ==
    [ initial_balance |-> initial_balance,
      starting_balance |-> initial_balance,
      current_balance |-> initial_balance,
      total_trades |-> 0,
      winning_trades |-> 0,
      losing_trades |-> 0,
      total_pnl |-> 0,
      current_position |-> NoPosition,
      trade_history |-> << >>,
      max_drawdown |-> 0,
      peak_balance |-> initial_balance,
      consecutive_losses |-> 0,
      daily_trade_count |-> 0,
      last_trade_date |-> NoDate,
      reset_count |-> 0,
      phase_1_resets |-> 0,
      phase_2_resets |-> 0,
      total_withdrawn |-> 0,
      total_profit_generated |-> 0,
      trading_paused |-> FALSE ]

\* the dictionary save_state() writes to STATE_FILE
save_state(v) ==
    [ initial_balance |-> v.initial_balance,
      starting_balance |-> v.starting_balance,
      current_balance |-> v.current_balance,
      total_trades |-> v.total_trades,
      winning_trades |-> v.winning_trades,
      losing_trades |-> v.losing_trades,
      total_pnl |-> v.total_pnl,
      trade_history |-> v.trade_history,
      current_position |-> v.current_position,
      max_drawdown |-> v.max_drawdown,
      peak_balance |-> v.peak_balance,
      consecutive_losses |-> v.consecutive_losses,
      reset_count |-> v.reset_count,
      phase_1_resets |-> v.phase_1_resets,
      phase_2_resets |-> v.phase_2_resets,
      total_withdrawn |-> v.total_withdrawn,
      total_profit_generated |-> v.total_profit_generated,
      trading_paused |-> v.trading_paused ]

\* load_state(): a fresh VirtualBalance(st['initial_balance']) with the fields
\* of the dictionary st read from STATE_FILE put over it (lines 531-549); what
\* the dictionary lacks keeps its constructor value
load_state(st) ==
    [ NewVirtualBalance(st.initial_balance) EXCEPT
        !.starting_balance = st.starting_balance,
        !.current_balance = st.current_balance,
        !.total_trades = st.total_trades,
        !.winning_trades = st.winning_trades,
        !.losing_trades = st.losing_trades,
        !.total_pnl = st.total_pnl,
        !.trade_history = st.trade_history,
        !.current_position = st.current_position,
        !.max_drawdown = st.max_drawdown,
        !.peak_balance = st.peak_balance,
        !.consecutive_losses = st.consecutive_losses,
        !.reset_count = st.reset_count,
        !.phase_1_resets = st.phase_1_resets,
        !.phase_2_resets = st.phase_2_resets,
        !.total_withdrawn = st.total_withdrawn,
        !.total_profit_generated = st.total_profit_generated,
        !.trading_paused = st.trading_paused ]

get_current_phase(v) ==
    IF v.starting_balance < PHASE_1_THRESHOLD THEN "growth" ELSE "extraction"

\* <<tp_price, sl_price>> in 1/10000 dollar
calculate_tp_sl(side, entry_price) ==
    IF side = "long"
    THEN << entry_price * (10000 + TAKE_PROFIT_PCT), entry_price * (10000 - STOP_LOSS_PCT) >>
    ELSE << entry_price * (10000 - TAKE_PROFIT_PCT), entry_price * (10000 + STOP_LOSS_PCT) >>

\* the Position open_position stores
NewPosition(side, entry_price, qty) ==
    [ side |-> side,
      entry_price |-> entry_price,
      qty |-> qty,
      tp_price |-> calculate_tp_sl(side, entry_price)[1],
      sl_price |-> calculate_tp_sl(side, entry_price)[2],
      recovered |-> FALSE ]

\* the Position sync_with_bitget synthesizes from the exchange's report
RecoveredPosition(side, entry_price, qty) ==
    [ NewPosition(side, entry_price, qty) EXCEPT !.recovered = TRUE ]

\* a pnl multiplied by the leverage once more
PnlOf_leveraged(pos, exit_price) ==
    LET change == IF pos.side = "long" THEN exit_price - pos.entry_price
                                       ELSE pos.entry_price - exit_price
    IN  LEVERAGE * MulDivQ(pos.qty * change, pos.entry_price, pos.entry_price)

\* close_position: price_change = (exit - entry) / entry, mirrored for a short;
\* pnl = qty * entry_price * price_change
PnlOf(pos, exit_price) ==
    LET change == IF pos.side = "long" THEN exit_price - pos.entry_price
                                       ELSE pos.entry_price - exit_price
    IN  MulDivQ(pos.qty * change, pos.entry_price, pos.entry_price)

\* a drawdown left as a fraction of the peak, not made a percentage
DrawdownPct_as_fraction(peak, current) == MulDivQ(peak - current, 1, peak)

\* (peak_balance - current_balance) / peak_balance * 100
DrawdownPct(peak, current) == MulDivQ(peak - current, 100, peak)

\* a booking of the pnl on starting_balance instead of current_balance
BookedBalance_from_starting(v, pnl) == v.starting_balance + pnl

\* line 356: self.current_balance += pnl
BookedBalance(v, pnl) == v.current_balance + pnl

\* a streak that a break-even trade ends as a winning trade does
LossStreak_ended_by_break_even(v, pnl) ==
    IF pnl >= 0 THEN 0 ELSE v.consecutive_losses + 1

\* lines 360-365: the consecutive_losses a close with this pnl leaves
LossStreak(v, pnl) ==
    IF pnl > 0 THEN 0 ELSE v.consecutive_losses + 1

\* close_position from stop_monitoring.set() to save_state(), on an open position
ClosePositionBody(v, exit_price, reason, day) ==
    LET pos == v.current_position
        pnl == PnlOf(pos, exit_price)
        balance == BookedBalance(v, pnl)
        peak == IF balance > v.peak_balance THEN balance ELSE v.peak_balance
        drawdown == DrawdownPct(peak, balance)
        count == IF v.last_trade_date # day THEN 0 ELSE v.daily_trade_count
        trade == [ side |-> pos.side,
                   entry_price |-> pos.entry_price,
                   exit_price |-> exit_price,
                   qty |-> pos.qty,
                   pnl |-> pnl,
                   balance_after |-> balance,
                   close_time |-> day,
                   close_reason |-> reason ]
    IN  [ v EXCEPT
            !.current_balance = balance,
            !.total_pnl = @ + pnl,
            !.total_trades = @ + 1,
            !.winning_trades = IF pnl > 0 THEN @ + 1 ELSE @,
            !.losing_trades = IF pnl > 0 THEN @ ELSE @ + 1,
            !.consecutive_losses = LossStreak(v, pnl),
            !.peak_balance = peak,
            !.max_drawdown = IF drawdown > @ THEN drawdown ELSE @,
            !.last_trade_date = day,
            !.daily_trade_count = count + 1,
            !.trade_history = Append(@, trade),
            !.current_position = NoPosition ]

\* a check_auto_reset that fires only above the threshold
ResetDue_strict(v) == v.current_balance > v.starting_balance * (1 + PROFIT_RESET_THRESHOLD)

\* the condition of check_auto_reset
ResetDue(v) == v.current_balance >= v.starting_balance * (1 + PROFIT_RESET_THRESHOLD)

ReinvestPct(v) ==
    IF get_current_phase(v) = "growth" THEN PHASE_1_REINVEST ELSE PHASE_2_REINVEST

\* a check_auto_reset whose new starting balance is the reinvested profit alone
check_auto_reset_drops_base(v) ==
    IF ResetDue(v)
    THEN LET profit == v.current_balance - v.starting_balance
             new_starting == RoundMulDiv(profit, ReinvestPct(v), 100)
         IN  [ v EXCEPT
                 !.starting_balance = new_starting,
                 !.current_balance = new_starting,
                 !.peak_balance = new_starting,
                 !.max_drawdown = 0,
                 !.reset_count = @ + 1 ]
    ELSE v

\* check_auto_reset: the ledger it leaves (save_state is the caller's next write)
check_auto_reset(v) ==
    IF ResetDue(v)
    THEN LET profit == v.current_balance - v.starting_balance
             phase == get_current_phase(v)
             reinvest_pct == ReinvestPct(v)
             withdraw_amount == RoundMulDiv(profit, 100 - reinvest_pct, 100)
             new_starting == v.starting_balance + RoundMulDiv(profit, reinvest_pct, 100)
         IN  [ v EXCEPT
                 !.phase_1_resets = IF phase = "growth" THEN @ + 1 ELSE @,
                 !.phase_2_resets = IF phase = "growth" THEN @ ELSE @ + 1,
                 !.starting_balance = new_starting,
                 !.current_balance = new_starting,
                 !.peak_balance = new_starting,
                 !.max_drawdown = 0,
                 !.total_withdrawn = @ + withdraw_amount,
                 !.total_profit_generated = @ + profit,
                 !.reset_count = @ + 1 ]
    ELSE v

\* a check_emergency_stop that compares the percentage with a fraction's scale
EmergencyDue_scaled(v) == v.max_drawdown >= MAX_DRAWDOWN_STOP * 100 /\ ~v.trading_paused

\* the condition of check_emergency_stop
EmergencyDue(v) == v.max_drawdown >= MAX_DRAWDOWN_STOP /\ ~v.trading_paused

RECURSIVE SumTodayPnl(_, _)
SumTodayPnl(history, day) ==
    IF history = << >> THEN 0
    ELSE (IF Head(history).close_time = day THEN Head(history).pnl ELSE 0)
         + SumTodayPnl(Tail(history), day)

TodayTrades(v, day) == { i \in 1..Len(v.trade_history) : v.trade_history[i].close_time = day }

\* _calculate_daily_drawdown: the fraction <<loss, balance_start_of_day>> whose
\* hundredfold the program returns; <<0, 1>> stands for its 0.0
calculate_daily_drawdown(v, day) ==
    IF TodayTrades(v, day) = {} THEN << 0, 1 >>
    ELSE LET daily_pnl == SumTodayPnl(v.trade_history, day)
             balance_start_of_day == v.current_balance - daily_pnl
         IN  IF balance_start_of_day <= 0 THEN << 0, 1 >>
             ELSE << Abs(Min(0, daily_pnl)), balance_start_of_day >>

should_trade(v, day) ==
    LET dd == calculate_daily_drawdown(v, day)
    IN  IF v.trading_paused THEN FALSE
        ELSE IF dd[1] * 100 > DAILY_DRAWDOWN_LIMIT * dd[2] THEN FALSE
        ELSE IF v.consecutive_losses >= CONSECUTIVE_LOSS_LIMIT THEN FALSE
        ELSE IF v.current_balance * 10 < v.initial_balance * MIN_BALANCE_TENTHS THEN FALSE
        ELSE TRUE

\* calculate_position_size(balance, price, leverage, risk_pct), in 1/1000 contract
calculate_position_size(balance, price, leverage, risk_pct) ==
    Max(RoundMulDiv(balance, risk_pct * leverage, 100 * price), 1)

\* ------------------------------------------------------------ the threads
NoFrame == [ exit_price |-> NoPrice, reason |-> "none", ret |-> "none",
             balance_before |-> 0, pnl |-> 0 ]
NoReturn == [ op |-> "none" ]
IdleLocals == [ action |-> "none", price |-> NoPrice, qty |-> 0, age |-> 0 ]
NoObservation == [ has_bitget_position |-> FALSE, bitget_side |-> "none", bitget_qty |-> 0 ]

\* what get_current_price may return
PriceAnswers == Prices \cup {NoPrice}

\* the exchange after close_all_positions: its close orders are taken as filled
close_all_positions(e) == NoPosition

\* _start_monitoring: the monitor thread's position afterwards
StartedMonitor(p) == IF p = "dead" THEN "m_top" ELSE p

\* the process after VirtualBalance(initial_balance) and start_sync_thread()
Boot(b) ==
    /\ vb = NewVirtualBalance(b)
    /\ saved = save_state(NewVirtualBalance(b))
    /\ position_lock = NoThread
    /\ stop_monitoring = FALSE
    /\ pc = [ t \in Threads |->
                IF t = "mon" THEN "dead" ELSE IF t = "sync" THEN "s_sleep" ELSE "idle" ]
    /\ frame = [ t \in Threads |-> NoFrame ]
    /\ returned = [ h \in Handlers |-> NoReturn ]
    /\ hl = [ h \in Handlers |-> IdleLocals ]
    /\ consecutive_failures = 0
    /\ sy = NoObservation
    /\ exchange = NoPosition
    /\ since_last_signal = DEBOUNCE_SEC
    /\ today = 0
    /\ signals = 0
    /\ day_start_balance = b

\* the value a ledger call hands back to thread t
Return(t, op, value) ==
    IF t \in Handlers THEN [ returned EXCEPT ![t] = [ op |-> op, value |-> value ] ]
                      ELSE returned

\* a close_position that counts the trade before it looks for a position
ClosePosition_counts_first(t) ==
    /\ pc[t] = "cp_acq"
    /\ position_lock = NoThread
    /\ IF vb.current_position = NoPosition
       THEN /\ vb' = [ vb EXCEPT !.total_trades = @ + 1 ]
            /\ returned' = Return(t, "close", 0)
            /\ pc' = [ pc EXCEPT ![t] = frame[t].ret ]
            /\ frame' = [ frame EXCEPT ![t] = NoFrame ]
            /\ UNCHANGED << saved, position_lock, stop_monitoring >>
       ELSE /\ position_lock' = t
            /\ stop_monitoring' = TRUE
            /\ vb' = ClosePositionBody(vb, frame[t].exit_price, frame[t].reason, today)
            /\ saved' = save_state(vb')
            /\ frame' = [ frame EXCEPT ![t].balance_before = vb.current_balance,
                                       ![t].pnl = PnlOf(vb.current_position, frame[t].exit_price) ]
            /\ pc' = [ pc EXCEPT ![t] = "cp_post" ]
            /\ UNCHANGED returned
    /\ UNCHANGED << hl, consecutive_failures, sy, exchange, since_last_signal, today, signals, day_start_balance >>

\* ---- close_position, called by thread t with frame[t]
\* lines 339-394: take the lock; no position: return 0; else book the trade
ClosePosition(t) ==
    /\ pc[t] = "cp_acq"
    /\ position_lock = NoThread
    /\ IF vb.current_position = NoPosition
       THEN /\ returned' = Return(t, "close", 0)
            /\ pc' = [ pc EXCEPT ![t] = frame[t].ret ]
            /\ frame' = [ frame EXCEPT ![t] = NoFrame ]
            /\ UNCHANGED << vb, saved, position_lock, stop_monitoring >>
       ELSE /\ position_lock' = t
            /\ stop_monitoring' = TRUE
            /\ vb' = ClosePositionBody(vb, frame[t].exit_price, frame[t].reason, today)
            /\ saved' = save_state(vb')
            /\ frame' = [ frame EXCEPT ![t].balance_before = vb.current_balance,
                                       ![t].pnl = PnlOf(vb.current_position, frame[t].exit_price) ]
            /\ pc' = [ pc EXCEPT ![t] = "cp_post" ]
            /\ UNCHANGED returned
    /\ UNCHANGED << hl, consecutive_failures, sy, exchange, since_last_signal, today, signals, day_start_balance >>

\* lines 401-407: check_auto_reset, check_emergency_stop, return pnl
ClosePositionChecks(t) ==
    /\ pc[t] = "cp_post"
    /\ LET v1 == check_auto_reset(vb)
           s1 == IF ResetDue(vb) THEN save_state(v1) ELSE saved
       IN  IF EmergencyDue(v1) /\ v1.current_position # NoPosition
           THEN \* lines 141-147: the nested close_position waits for the lock
                \* this thread holds
                /\ vb' = [ v1 EXCEPT !.trading_paused = TRUE ]
                /\ saved' = s1
                /\ exchange' = close_all_positions(exchange)
                /\ pc' = [ pc EXCEPT ![t] = "cp_acq" ]
                /\ UNCHANGED << position_lock, frame, returned >>
           ELSE /\ vb' = IF EmergencyDue(v1) THEN [ v1 EXCEPT !.trading_paused = TRUE ] ELSE v1
                /\ saved' = IF EmergencyDue(v1) THEN save_state(vb') ELSE s1
                /\ position_lock' = NoThread
                /\ returned' = Return(t, "close", frame[t].pnl)
                /\ pc' = [ pc EXCEPT ![t] = frame[t].ret ]
                /\ frame' = [ frame EXCEPT ![t] = NoFrame ]
                /\ UNCHANGED exchange
    /\ UNCHANGED << stop_monitoring, hl, consecutive_failures, sy, since_last_signal, today, signals, day_start_balance >>

\* an open_position without the test of line 244
OpenPosition_overwrites(h) ==
    /\ pc[h] = "op_acq"
    /\ position_lock = NoThread
    /\ vb' = [ vb EXCEPT !.current_position =
                 NewPosition(IF hl[h].action = "BUY" THEN "long" ELSE "short",
                             hl[h].price, hl[h].qty) ]
    /\ saved' = save_state(vb')
    /\ stop_monitoring' = FALSE
    /\ consecutive_failures' = IF pc["mon"] = "dead" THEN 0 ELSE consecutive_failures
    /\ pc' = [ pc EXCEPT ![h] = "idle", !["mon"] = StartedMonitor(@) ]
    /\ returned' = Return(h, "open", TRUE)
    /\ hl' = [ hl EXCEPT ![h] = IdleLocals ]
    /\ UNCHANGED << position_lock, frame, sy, exchange, since_last_signal, today, signals, day_start_balance >>

\* ---- open_position(side, price, qty), called by handler h (lines 242-261)
OpenPosition(h) ==
    /\ pc[h] = "op_acq"
    /\ position_lock = NoThread
    /\ IF vb.current_position # NoPosition
       THEN /\ returned' = Return(h, "open", FALSE)
            /\ pc' = [ pc EXCEPT ![h] = "idle" ]
            /\ UNCHANGED << vb, saved, stop_monitoring, consecutive_failures >>
       ELSE /\ vb' = [ vb EXCEPT !.current_position =
                          NewPosition(IF hl[h].action = "BUY" THEN "long" ELSE "short",
                                      hl[h].price, hl[h].qty) ]
            /\ saved' = save_state(vb')
            /\ stop_monitoring' = FALSE
            /\ consecutive_failures' = IF pc["mon"] = "dead" THEN 0 ELSE consecutive_failures
            /\ pc' = [ pc EXCEPT ![h] = "idle", !["mon"] = StartedMonitor(@) ]
            /\ returned' = Return(h, "open", TRUE)
    /\ hl' = [ hl EXCEPT ![h] = IdleLocals ]
    /\ UNCHANGED << position_lock, frame, sy, exchange, since_last_signal, today, signals, day_start_balance >>

\* ---- webhook(), POST with the right secret, run by handler thread h
\* the server's threads are interchangeable: a request goes to the first idle one
FirstIdle(h) == h = "h1" \/ pc["h1"] # "idle"

\* lines 673-676: read the clock and test the debounce window
WebhookPost(h, budget) ==
    /\ pc[h] = "idle"
    /\ FirstIdle(h)
    /\ signals < budget
    /\ since_last_signal >= DEBOUNCE_SEC
    /\ \E a \in Actions : hl' = [ hl EXCEPT ![h] = [ IdleLocals EXCEPT !.action = a ] ]
    /\ pc' = [ pc EXCEPT ![h] = "h_set" ]
    /\ signals' = signals + 1
    /\ returned' = [ returned EXCEPT ![h] = NoReturn ]
    /\ UNCHANGED << vb, saved, position_lock, stop_monitoring, frame,
                    consecutive_failures, sy, exchange, since_last_signal, today, day_start_balance >>

\* lines 675-676: a signal inside the debounce window is answered 'debounced'
WebhookDebounced(h) ==
    /\ pc[h] = "idle"
    /\ FirstIdle(h)
    /\ since_last_signal < DEBOUNCE_SEC
    /\ UNCHANGED << vb, saved, position_lock, stop_monitoring, pc, frame, hl,
                    consecutive_failures, sy, exchange, since_last_signal, today, signals, returned, day_start_balance >>

\* line 677: last_signal_time = now
SetLastSignalTime(h) ==
    /\ pc[h] = "h_set"
    /\ since_last_signal' = hl[h].age
    /\ pc' = [ pc EXCEPT ![h] = "h_should" ]
    /\ hl' = [ hl EXCEPT ![h].age = 0 ]
    /\ UNCHANGED << vb, saved, position_lock, stop_monitoring, frame,
                    consecutive_failures, sy, exchange, today, signals, returned, day_start_balance >>

\* a handler that takes a failing price feed for an emergency and pauses
RiskCheck_pauses(h, answers) ==
    /\ pc[h] = "h_should"
    /\ \E p \in answers :
          IF should_trade(vb, today) /\ p # NoPrice
          THEN /\ pc' = [ pc EXCEPT ![h] = "h_lock" ]
               /\ hl' = [ hl EXCEPT ![h].price = p ]
               /\ UNCHANGED << vb, saved, returned >>
          ELSE /\ pc' = [ pc EXCEPT ![h] = "idle" ]
               /\ hl' = [ hl EXCEPT ![h] = IdleLocals ]
               /\ vb' = [ vb EXCEPT !.trading_paused = TRUE ]
               /\ saved' = save_state(vb')
               /\ returned' = IF should_trade(vb, today)
                               THEN Return(h, "get_current_price", NoPrice)
                               ELSE returned
    /\ UNCHANGED << position_lock, stop_monitoring, frame,
                    consecutive_failures, sy, exchange, since_last_signal, today, signals, day_start_balance >>

\* lines 680-691: the unlocked should_trade() gate, then get_current_price;
\* a handler sent back by a failed price fetch has that answer as its last one
RiskCheck(h, answers) ==
    /\ pc[h] = "h_should"
    /\ \E p \in answers :
          IF should_trade(vb, today) /\ p # NoPrice
          THEN /\ pc' = [ pc EXCEPT ![h] = "h_lock" ]
               /\ hl' = [ hl EXCEPT ![h].price = p ]
               /\ UNCHANGED returned
          ELSE /\ pc' = [ pc EXCEPT ![h] = "idle" ]
               /\ hl' = [ hl EXCEPT ![h] = IdleLocals ]
               /\ returned' = IF should_trade(vb, today)
                               THEN Return(h, "get_current_price", NoPrice)
                               ELSE returned
    /\ UNCHANGED << vb, saved, position_lock, stop_monitoring, frame,
                    consecutive_failures, sy, exchange, since_last_signal, today, signals, day_start_balance >>

SameDirection(action, side) ==
    IF action = "BUY" THEN side = "long"
    ELSE IF action = "SELL" THEN side = "short"
    ELSE FALSE

\* the call of close_position made while thread t holds position_lock
CallCloseLocked(t, exit_price, reason, ret) ==
    /\ position_lock' = t
    /\ frame' = [ frame EXCEPT ![t] = [ NoFrame EXCEPT !.exit_price = exit_price,
                                                       !.reason = reason,
                                                       !.ret = ret ] ]
    /\ pc' = [ pc EXCEPT ![t] = "cp_acq" ]

\* lines 694-707: under position_lock, look at the existing position
HandleExisting(h) ==
    /\ pc[h] = "h_lock"
    /\ position_lock = NoThread
    /\ IF vb.current_position = NoPosition
       THEN /\ pc' = [ pc EXCEPT ![h] = "h_order" ]
            /\ UNCHANGED << position_lock, frame, hl, exchange >>
       ELSE IF SameDirection(hl[h].action, vb.current_position.side)
       THEN /\ pc' = [ pc EXCEPT ![h] = "idle" ]
            /\ hl' = [ hl EXCEPT ![h] = IdleLocals ]
            /\ UNCHANGED << position_lock, frame, exchange >>
       ELSE \* close_all_positions, then close_position with the lock still held
            /\ exchange' = close_all_positions(exchange)
            /\ CallCloseLocked(h, hl[h].price, "signal_flip", "h_order")
            /\ UNCHANGED hl
    /\ UNCHANGED << vb, saved, stop_monitoring, consecutive_failures, sy,
                    since_last_signal, today, signals, returned, day_start_balance >>

\* lines 710-737: set_leverage, then the order of the signal
ExecuteSignal(h) ==
    /\ pc[h] = "h_order"
    /\ IF hl[h].action \in {"BUY", "SELL"}
       THEN LET qty == calculate_position_size(vb.current_balance, hl[h].price,
                                               LEVERAGE, RISK_PERCENTAGE)
                side == IF hl[h].action = "BUY" THEN "long" ELSE "short"
            IN  \E accepted \in BOOLEAN :
                  IF accepted
                  THEN /\ exchange' = [ side |-> side, qty |-> qty ]
                       /\ hl' = [ hl EXCEPT ![h].qty = qty ]
                       /\ pc' = [ pc EXCEPT ![h] = "op_acq" ]
                       /\ UNCHANGED frame
                  ELSE /\ pc' = [ pc EXCEPT ![h] = "idle" ]
                       /\ hl' = [ hl EXCEPT ![h] = IdleLocals ]
                       /\ UNCHANGED << frame, exchange >>
       ELSE IF vb.current_position # NoPosition
       THEN /\ exchange' = close_all_positions(exchange)
            /\ frame' = [ frame EXCEPT ![h] = [ NoFrame EXCEPT !.exit_price = hl[h].price,
                                                               !.reason = "manual_close",
                                                               !.ret = "idle" ] ]
            /\ pc' = [ pc EXCEPT ![h] = "cp_acq" ]
            /\ hl' = [ hl EXCEPT ![h] = IdleLocals ]
       ELSE /\ pc' = [ pc EXCEPT ![h] = "idle" ]
            /\ hl' = [ hl EXCEPT ![h] = IdleLocals ]
            /\ UNCHANGED << frame, exchange >>
    /\ UNCHANGED << vb, saved, position_lock, stop_monitoring,
                    consecutive_failures, sy, since_last_signal, today, signals, returned, day_start_balance >>

\* ---- monitor_position, run by the thread "mon"
HitTp(pos, price) ==
    IF pos.side = "long" THEN price * 10000 >= pos.tp_price
                         ELSE price * 10000 <= pos.tp_price

HitSl(pos, price) ==
    IF pos.side = "long" THEN price * 10000 <= pos.sl_price
                         ELSE price * 10000 >= pos.sl_price

\* a monitor that, told to stop, asks the exchange to close once more
MonitorIteration_closes_first(answers) ==
    /\ pc["mon"] = "m_top"
    /\ IF stop_monitoring
       THEN /\ pc' = [ pc EXCEPT !["mon"] = "m_exit" ]
            /\ consecutive_failures' = 0
            /\ exchange' = close_all_positions(exchange)
            /\ UNCHANGED << position_lock, frame >>
       ELSE /\ position_lock = NoThread
            /\ IF vb.current_position = NoPosition
               THEN /\ pc' = [ pc EXCEPT !["mon"] = "m_exit" ]
                    /\ consecutive_failures' = 0
                    /\ UNCHANGED << position_lock, frame, exchange >>
               ELSE \E p \in answers :
                      IF p = NoPrice
                      THEN /\ consecutive_failures' = consecutive_failures + 1
                           /\ IF consecutive_failures + 1 >= MAX_PRICE_FAILURES
                              THEN \* _emergency_close (lines 332-337)
                                   /\ exchange' = close_all_positions(exchange)
                                   /\ CallCloseLocked("mon", vb.current_position.entry_price,
                                                      "emergency", "m_exit")
                              ELSE UNCHANGED << pc, position_lock, frame, exchange >>
                      ELSE /\ consecutive_failures' = 0
                           /\ IF HitTp(vb.current_position, p) \/ HitSl(vb.current_position, p)
                              THEN /\ exchange' = close_all_positions(exchange)
                                   /\ CallCloseLocked("mon", p,
                                          IF HitTp(vb.current_position, p) THEN "TP" ELSE "SL",
                                          "m_exit")
                              ELSE UNCHANGED << pc, position_lock, frame, exchange >>
    /\ UNCHANGED << vb, saved, stop_monitoring, hl, sy, since_last_signal, today, signals, returned, day_start_balance >>

\* lines 287-321: the loop test and one iteration under position_lock
MonitorIteration(answers) ==
    /\ pc["mon"] = "m_top"
    /\ IF stop_monitoring
       THEN /\ pc' = [ pc EXCEPT !["mon"] = "m_exit" ]
            /\ consecutive_failures' = 0
            /\ UNCHANGED << position_lock, frame, exchange >>
       ELSE /\ position_lock = NoThread
            /\ IF vb.current_position = NoPosition
               THEN /\ pc' = [ pc EXCEPT !["mon"] = "m_exit" ]
                    /\ consecutive_failures' = 0
                    /\ UNCHANGED << position_lock, frame, exchange >>
               ELSE \E p \in answers :
                      IF p = NoPrice
                      THEN /\ consecutive_failures' = consecutive_failures + 1
                           /\ IF consecutive_failures + 1 >= MAX_PRICE_FAILURES
                              THEN \* _emergency_close (lines 332-337)
                                   /\ exchange' = close_all_positions(exchange)
                                   /\ CallCloseLocked("mon", vb.current_position.entry_price,
                                                      "emergency", "m_exit")
                              ELSE UNCHANGED << pc, position_lock, frame, exchange >>
                      ELSE /\ consecutive_failures' = 0
                           /\ IF HitTp(vb.current_position, p) \/ HitSl(vb.current_position, p)
                              THEN /\ exchange' = close_all_positions(exchange)
                                   /\ CallCloseLocked("mon", p,
                                          IF HitTp(vb.current_position, p) THEN "TP" ELSE "SL",
                                          "m_exit")
                              ELSE UNCHANGED << pc, position_lock, frame, exchange >>
    /\ UNCHANGED << vb, saved, stop_monitoring, hl, sy, since_last_signal, today, signals, returned, day_start_balance >>

\* lines 329-330: the thread ends; is_alive() is true until here
MonitorExit ==
    /\ pc["mon"] = "m_exit"
    /\ pc' = [ pc EXCEPT !["mon"] = "dead" ]
    /\ UNCHANGED << vb, saved, position_lock, stop_monitoring, frame, hl,
                    consecutive_failures, sy, exchange, since_last_signal, today, signals, returned, day_start_balance >>

\* ---- sync_with_bitget, run by the thread "sync"
\* lines 170-188: sleep, then ask the exchange for its position
SyncObserve ==
    /\ pc["sync"] = "s_sleep"
    /\ sy' = IF exchange = NoPosition THEN NoObservation
             ELSE [ has_bitget_position |-> TRUE,
                    bitget_side |-> exchange.side,
                    bitget_qty |-> exchange.qty ]
    /\ pc' = [ pc EXCEPT !["sync"] = "s_lock" ]
    /\ UNCHANGED << vb, saved, position_lock, stop_monitoring, frame, hl,
                    consecutive_failures, exchange, since_last_signal, today, signals, returned, day_start_balance >>

\* lines 190-235: compare under position_lock and repair
SyncReconcile(answers) ==
    /\ pc["sync"] = "s_lock"
    /\ position_lock = NoThread
    /\ \E p \in answers :
         LET has == vb.current_position # NoPosition
             mismatch == has /\ sy.has_bitget_position
                             /\ vb.current_position.side # sy.bitget_side
         IN  IF p # NoPrice /\ has /\ ~sy.has_bitget_position
             THEN /\ CallCloseLocked("sync", p, "external_close", "s_sleep")
                  /\ UNCHANGED << vb, saved, stop_monitoring, consecutive_failures, sy >>
             ELSE IF p # NoPrice /\ mismatch
             THEN \* lines 223-233 would run after close_position returns
                  /\ CallCloseLocked("sync", p, "side_mismatch", "s_recover")
                  /\ UNCHANGED << vb, saved, stop_monitoring, consecutive_failures, sy >>
             ELSE IF p # NoPrice /\ ~has /\ sy.has_bitget_position
             THEN /\ vb' = [ vb EXCEPT !.current_position =
                                RecoveredPosition(sy.bitget_side, p, sy.bitget_qty) ]
                  /\ saved' = save_state(vb')
                  /\ stop_monitoring' = FALSE
                  /\ consecutive_failures' =
                        IF pc["mon"] = "dead" THEN 0 ELSE consecutive_failures
                  /\ pc' = [ pc EXCEPT !["sync"] = "s_sleep", !["mon"] = StartedMonitor(@) ]
                  /\ sy' = NoObservation
                  /\ UNCHANGED << position_lock, frame >>
             ELSE /\ pc' = [ pc EXCEPT !["sync"] = "s_sleep" ]
                  /\ sy' = NoObservation
                  /\ UNCHANGED << vb, saved, position_lock, stop_monitoring, frame,
                                  consecutive_failures >>
    /\ UNCHANGED << hl, exchange, since_last_signal, today, signals, returned, day_start_balance >>

\* ---- resume_trading(), POST /resume with the right secret, thread "res"
\* line 757: if virtual_balance.trading_paused
ResumeRequest ==
    /\ pc["res"] = "idle"
    /\ vb.trading_paused
    /\ pc' = [ pc EXCEPT !["res"] = "r_set" ]
    /\ UNCHANGED << vb, saved, position_lock, stop_monitoring, frame, hl,
                    consecutive_failures, sy, exchange, since_last_signal, today, signals, returned, day_start_balance >>

\* a resume that also restarts the balance from starting_balance
ResumeApply_rebases ==
    /\ pc["res"] = "r_set"
    /\ vb' = [ vb EXCEPT !.trading_paused = FALSE, !.max_drawdown = 0,
                         !.current_balance = vb.starting_balance ]
    /\ saved' = save_state(vb')
    /\ pc' = [ pc EXCEPT !["res"] = "idle" ]
    /\ UNCHANGED << position_lock, stop_monitoring, frame, hl,
                    consecutive_failures, sy, exchange, since_last_signal, today, signals, returned, day_start_balance >>

\* a resume that also restarts the peak at the current balance
ResumeApply_resets_peak ==
    /\ pc["res"] = "r_set"
    /\ vb' = [ vb EXCEPT !.trading_paused = FALSE, !.max_drawdown = 0,
                         !.peak_balance = vb.current_balance ]
    /\ saved' = save_state(vb')
    /\ pc' = [ pc EXCEPT !["res"] = "idle" ]
    /\ UNCHANGED << position_lock, stop_monitoring, frame, hl,
                    consecutive_failures, sy, exchange, since_last_signal, today, signals, returned, day_start_balance >>

\* lines 758-760
ResumeApply ==
    /\ pc["res"] = "r_set"
    /\ vb' = [ vb EXCEPT !.trading_paused = FALSE, !.max_drawdown = 0 ]
    /\ saved' = save_state(vb')
    /\ pc' = [ pc EXCEPT !["res"] = "idle" ]
    /\ UNCHANGED << position_lock, stop_monitoring, frame, hl,
                    consecutive_failures, sy, exchange, since_last_signal, today, signals, returned, day_start_balance >>

\* lines 753-754 and 767-771: a request with a wrong secret, and one that
\* finds trading not paused, get their answer without a write
ResumeRefused ==
    /\ pc["res"] = "idle"
    /\ \E secret_ok \in BOOLEAN :
          /\ ~secret_ok \/ ~vb.trading_paused
          /\ pc' = [ pc EXCEPT !["res"] = IF secret_ok THEN "r_not_paused" ELSE "r_401" ]
    /\ UNCHANGED << vb, saved, position_lock, stop_monitoring, frame, hl,
                    consecutive_failures, sy, exchange, since_last_signal, today, signals, returned, day_start_balance >>

\* the refused request returns
ResumeAnswered ==
    /\ pc["res"] \in {"r_not_paused", "r_401"}
    /\ pc' = [ pc EXCEPT !["res"] = "idle" ]
    /\ UNCHANGED << vb, saved, position_lock, stop_monitoring, frame, hl,
                    consecutive_failures, sy, exchange, since_last_signal, today, signals, returned, day_start_balance >>

\* ---- the environment
\* DEBOUNCE_SEC seconds pass
Tick ==
    /\ \/ since_last_signal < DEBOUNCE_SEC
       \/ \E h \in Handlers : pc[h] = "h_set" /\ hl[h].age < DEBOUNCE_SEC
    /\ since_last_signal' = DEBOUNCE_SEC
    /\ hl' = [ h \in Handlers |->
                 IF pc[h] = "h_set" THEN [ hl[h] EXCEPT !.age = DEBOUNCE_SEC ] ELSE hl[h] ]
    /\ UNCHANGED << vb, saved, position_lock, stop_monitoring, pc, frame,
                    consecutive_failures, sy, exchange, today, signals, returned, day_start_balance >>

\* midnight
NextDay ==
    /\ today < MaxDay
    /\ today' = today + 1
    /\ day_start_balance' = vb.current_balance
    /\ UNCHANGED << vb, saved, position_lock, stop_monitoring, pc, frame, hl,
                    consecutive_failures, sy, exchange, since_last_signal, signals, returned >>

\* the exchange position changes without the bot: a manual order on a flat
\* account, or a liquidation or manual close of the position
ExchangeChanges(sides, qtys) ==
    /\ IF exchange = NoPosition
       THEN \E e \in [ side : sides, qty : qtys ] : exchange' = e
       ELSE exchange' = NoPosition
    /\ UNCHANGED << vb, saved, position_lock, stop_monitoring, pc, frame, hl,
                    consecutive_failures, sy, since_last_signal, today, signals, returned, day_start_balance >>

\* the threads of the process with the handler threads H serving up to n
\* signals and get_current_price answering from A; no /resume request arrives
Trading(H, A, n) ==
    \/ \E t \in H \cup {"mon", "sync"} : ClosePosition(t)
    \/ \E t \in H \cup {"mon", "sync"} : ClosePositionChecks(t)
    \/ \E h \in H : OpenPosition(h)
    \/ \E h \in H : WebhookPost(h, n)
    \/ \E h \in H : WebhookDebounced(h)
    \/ \E h \in H : SetLastSignalTime(h)
    \/ \E h \in H : RiskCheck(h, A)
    \/ \E h \in H : HandleExisting(h)
    \/ \E h \in H : ExecuteSignal(h)
    \/ MonitorIteration(A)
    \/ MonitorExit
    \/ SyncObserve
    \/ SyncReconcile(A)
    \/ Tick
    \/ ExchangeChanges(Sides, ExternalQtys)

\* the same with the /resume endpoint in use
System(H, A, n) ==
    \/ Trading(H, A, n)
    \/ ResumeRequest
    \/ ResumeApply

Next == System({"h1"}, Prices, MaxSignals)

Init == \E b \in InitialBalances : Boot(b)

Spec == Init /\ [][Next]_vars

\* two requests in flight at once, at a steady price
RaceNext == Trading(Handlers, RacePrices, MaxRaceSignals)

RaceSpec == Init /\ [][RaceNext]_vars

\* two requests in flight at once while the price moves
MovingRaceNext == Trading(Handlers, Prices, MaxRaceSignals)

MovingRaceSpec == Init /\ [][MovingRaceNext]_vars

\* The ledger over several trades.  One handler serves up to n signals;
\* between its two looks at current_position (lines 695 and 728) a position of
\* a quantity in qtys is opened on the exchange by hand and recovered by the
\* sync thread, so every close_position call is the one of line 733, made
\* without the lock.  The monitor thread is not scheduled.
Ledger(n, qtys) ==
    \/ ClosePosition("h1")
    \/ ClosePositionChecks("h1")
    \/ WebhookPost("h1", n)
    \/ SetLastSignalTime("h1")
    \/ RiskCheck("h1", Prices)
    \/ HandleExisting("h1")
    \/ ExecuteSignal("h1")
    \/ pc["h1"] = "h_order" /\ hl["h1"].action = "CLOSE" /\ exchange = NoPosition
          /\ vb.current_position = NoPosition /\ ExchangeChanges({"long"}, qtys)
    \/ pc["h1"] = "h_order" /\ exchange # NoPosition /\ SyncObserve
    \/ SyncReconcile(Prices)
    \/ ResumeRequest
    \/ ResumeApply
    \/ Tick

\* a few trades on one day, from a growth-phase and an extraction-phase start
ResetNext == Ledger(MaxResetSignals, LedgerQtys)

\* more trades, over several days
LedgerNext ==
    \/ Ledger(MaxLedgerSignals, LedgerQtys)
    \/ pc["h1"] = "idle" /\ NextDay

LedgerInit == \E b \in LedgerBalances : Boot(b)

LedgerSpec == LedgerInit /\ [][LedgerNext]_vars

ResetSpec == LedgerInit /\ [][ResetNext]_vars

\* the same with /resume requests of every kind: with a wrong secret, while
\* trading is not paused, and while it is
ResumeNext ==
    \/ Ledger(MaxResumeSignals, LedgerQtys)
    \/ ResumeRefused
    \/ ResumeAnswered

ResumeSpec == LedgerInit /\ [][ResumeNext]_vars

\* every thread of the process keeps running: the scheduler starves none of
\* them; the environment (signals, the exchange, the clock) owes nothing
Fairness ==
    /\ \A t \in {"h1", "mon", "sync"} : WF_vars(ClosePosition(t))
    /\ \A t \in {"h1", "mon", "sync"} : WF_vars(ClosePositionChecks(t))
    /\ WF_vars(OpenPosition("h1"))
    /\ WF_vars(SetLastSignalTime("h1"))
    /\ WF_vars(RiskCheck("h1", Prices))
    /\ WF_vars(HandleExisting("h1"))
    /\ WF_vars(ExecuteSignal("h1"))
    /\ WF_vars(MonitorIteration(Prices))
    /\ WF_vars(MonitorExit)
    /\ WF_vars(SyncObserve)
    /\ WF_vars(SyncReconcile(Prices))
    /\ WF_vars(ResumeApply)

FairSpec == Init /\ [][Next]_vars /\ Fairness

\* ------------------------------------------------ price outages
\* every get_current_price call may fail and answer None (line 616)
OutageNext == System({"h1"}, PriceAnswers, MaxOutageSignals)

OutageSpec == Init /\ [][OutageNext]_vars

\* the threads keep running while the price feed may fail at any call
OutageFairness ==
    /\ \A t \in {"h1", "mon", "sync"} : WF_vars(ClosePosition(t))
    /\ \A t \in {"h1", "mon", "sync"} : WF_vars(ClosePositionChecks(t))
    /\ WF_vars(OpenPosition("h1"))
    /\ WF_vars(SetLastSignalTime("h1"))
    /\ WF_vars(RiskCheck("h1", PriceAnswers))
    /\ WF_vars(HandleExisting("h1"))
    /\ WF_vars(ExecuteSignal("h1"))
    /\ WF_vars(MonitorIteration(PriceAnswers))
    /\ WF_vars(MonitorExit)
    /\ WF_vars(SyncObserve)
    /\ WF_vars(SyncReconcile(PriceAnswers))
    /\ WF_vars(ResumeApply)

OutageFairSpec == Init /\ [][OutageNext]_vars /\ OutageFairness

\* ------------------------------------------------------------ properties
\* thread t waits for position_lock
WaitsForLock(t) == pc[t] \in {"cp_acq", "op_acq", "h_lock", "s_lock"}

\* C1: no thread waits for position_lock while the lock is held by a thread
\* that itself waits for it, so that the lock is never released
C1_NoThreadBlocksForever ==
    \A t \in Threads : WaitsForLock(t) => ~(position_lock # NoThread /\ WaitsForLock(position_lock))

\* the monitor saw its take-profit or stop-loss price and called close_position
MonitorHit == pc["mon"] = "cp_acq" /\ frame["mon"].reason \in {"TP", "SL"}

\* the position is gone, its last trade record is a TP or SL record, and the
\* monitor has left its loop
MonitorClosed ==
    /\ vb.current_position = NoPosition
    /\ pc["mon"] \in {"m_exit", "dead"}
    /\ Len(vb.trade_history) > 0
    /\ vb.trade_history[Len(vb.trade_history)].close_reason \in {"TP", "SL"}

\* C2: once the monitor observes a price at or beyond the take-profit or
\* stop-loss level of the open position, eventually the position is cleared,
\* a TP or SL trade record is appended and the monitor terminates
C2_MonitorHitCloses == MonitorHit ~> MonitorClosed

\* the step books one close: the open position goes and exactly one trade
\* record, the one of that position, is appended
BooksOneClose ==
    /\ vb.current_position # NoPosition
    /\ vb'.current_position = NoPosition
    /\ Len(vb'.trade_history) = Len(vb.trade_history) + 1
    /\ SubSeq(vb'.trade_history, 1, Len(vb.trade_history)) = vb.trade_history
    /\ LET trade == vb'.trade_history[Len(vb'.trade_history)]
       IN  /\ trade.side = vb.current_position.side
           /\ trade.entry_price = vb.current_position.entry_price
           /\ trade.qty = vb.current_position.qty

\* C3: the ledger's one position is never replaced while open except by a
\* close, and every position yields at most one trade record: a position
\* changes only from none to open or by a step that clears it and appends
\* its one record, and the history changes by no other step
C3_OnePositionOneRecord ==
    [][ /\ (vb.current_position # NoPosition /\ vb'.current_position # vb.current_position)
             => BooksOneClose
        /\ (vb'.trade_history # vb.trade_history) => BooksOneClose ]_vars

\* a position was recovered after an earlier one was closed and recorded
C3_Witness ==
    /\ Len(vb.trade_history) >= 1
    /\ vb.current_position # NoPosition

\* thread t's close_position returns with this step
CloseReturns(t) == pc[t] = "cp_post" /\ pc'[t] = frame[t].ret

\* C4: when a close of an open position returns, current_balance equals
\* current_balance just before the close plus the pnl the close returns
C4_BalanceIsBeforePlusPnl ==
    [][ \A t \in Threads :
          CloseReturns(t) =>
             vb'.current_balance = frame[t].balance_before + frame[t].pnl ]_vars

\* C4, amended: when a close of an open position returns, current_balance
\* equals current_balance just before the close plus the returned pnl minus
\* what the reset triggered by this close added to total_withdrawn
C4_BalanceIsBeforePlusPnlLessWithdrawal ==
    [][ \A t \in Threads :
          CloseReturns(t) =>
             vb'.current_balance = frame[t].balance_before + frame[t].pnl
                                   - (vb'.total_withdrawn - vb.total_withdrawn) ]_vars

\* a close has returned a pnl after an extraction-phase reset withdrew profit
C4_Witness ==
    /\ returned["h1"].op = "close"
    /\ vb.phase_2_resets >= 1
    /\ vb.total_withdrawn > 0
    /\ vb.current_balance = vb.starting_balance

\* C5: current_balance changes only in the steps of a close_position that
\* finds a position: its booking and its reset
C5_BalanceChangesOnlyInClose ==
    [][ vb'.current_balance # vb.current_balance =>
          \E t \in Threads : (pc[t] = "cp_acq" /\ pc'[t] = "cp_post")
                              \/ (pc[t] = "cp_post" /\ pc'[t] # "cp_post") ]_vars

\* after a losing close the sync thread recovered a new position, and the
\* balance is still the one the close left
C5_Witness ==
    /\ Len(vb.trade_history) = 1
    /\ vb.current_position # NoPosition
    /\ ~vb.trading_paused
    /\ vb.consecutive_losses = 1
    /\ vb.current_balance = vb.trade_history[1].balance_after

\* the step changes nothing of the ledger, its snapshot or the monitor
NoLedgerEffect ==
    /\ vb' = vb
    /\ saved' = saved
    /\ stop_monitoring' = stop_monitoring
    /\ pc'["mon"] = pc["mon"]

\* C6: open_position called while a position exists returns False, and
\* close_position called while none exists returns 0; neither changes a
\* ledger field, the position, the history or the snapshot, nor starts or
\* stops the monitor
C6_InvalidCallsAreNoOps ==
    [][ \A h \in Handlers :
          /\ (pc[h] = "op_acq" /\ pc'[h] # "op_acq" /\ vb.current_position # NoPosition)
                => (returned'[h] = [ op |-> "open", value |-> FALSE ] /\ NoLedgerEffect)
          /\ (pc[h] = "cp_acq" /\ pc'[h] # "cp_acq" /\ vb.current_position = NoPosition)
                => (returned'[h] = [ op |-> "close", value |-> 0 ] /\ NoLedgerEffect) ]_vars

\* two handlers called close_position for one position: one booked the trade,
\* the other found no position and returned 0
C6_Witness ==
    /\ returned["h1"].op = "close"
    /\ returned["h2"].op = "close"
    /\ returned["h2"].value = 0
    /\ pc["h1"] = "idle"
    /\ pc["h2"] = "idle"
    /\ vb.total_trades = 1

\* C7: a close that returns with max_drawdown at or above MAX_DRAWDOWN_STOP
\* returns with trading_paused set and no position; trading_paused is set
\* only by the checks at the end of a close and cleared only by resume; and
\* while it is set should_trade is false
C7_EmergencyStopHolds ==
    [][ /\ \A t \in Threads :
             (CloseReturns(t) /\ vb'.max_drawdown >= MAX_DRAWDOWN_STOP)
                => (vb'.trading_paused /\ vb'.current_position = NoPosition)
        /\ (vb.trading_paused /\ ~vb'.trading_paused)
             => (pc["res"] = "r_set" /\ pc'["res"] = "idle")
        /\ (~vb.trading_paused /\ vb'.trading_paused)
             => \E t \in Threads : pc[t] = "cp_post" /\ pc'[t] # "cp_post"
        /\ vb'.trading_paused => ~should_trade(vb', today') ]_vars

\* the stop is in force: a losing close returned with the drawdown over the
\* threshold and trading paused
C7_Witness ==
    /\ vb.trading_paused
    /\ vb.max_drawdown >= MAX_DRAWDOWN_STOP
    /\ returned["h1"].op = "close"
    /\ pc["h1"] = "idle"
    /\ vb.current_position = NoPosition
    /\ ~should_trade(vb, today)

\* today's drawdown as the specification words it: the loss realized today against
\* the balance the day began with, as the fraction <<loss, balance>>
SpecifiedDailyDrawdown == << Max(0, 0 - SumTodayPnl(vb.trade_history, today)), day_start_balance >>

\* C8: should_trade returns False exactly when trading is paused, or today's
\* loss exceeds 20 percent of the balance at the start of the day, or there
\* are 5 or more consecutive losses, or the balance is below 0.3 of the
\* initial balance
C8_ShouldTradeIffNoBreaker ==
    should_trade(vb, today) =
       ~ \/ vb.trading_paused
         \/ SpecifiedDailyDrawdown[1] * 100 > 20 * SpecifiedDailyDrawdown[2]
         \/ vb.consecutive_losses >= 5
         \/ vb.current_balance * 10 < vb.initial_balance * 3

\* C9: the reset fires at the end of a close exactly when current_balance is
\* at least 3 times starting_balance; with profit = current_balance -
\* starting_balance and f = 1 in growth, 0.05 in extraction phase,
\* starting_balance, current_balance and peak_balance become
\* starting_balance + profit * f, max_drawdown 0, total_withdrawn grows by
\* profit * (1 - f), total_profit_generated by profit, reset_count and the
\* counter of the phase before the reset by one, the other counter by none
C9_ResetArithmetic ==
    [][ \A t \in Threads :
          (pc[t] = "cp_post" /\ pc'[t] # "cp_post") =>
             LET profit == vb.current_balance - vb.starting_balance
                 growth == vb.starting_balance < PHASE_1_THRESHOLD
             IN  IF vb.current_balance >= 3 * vb.starting_balance
                 THEN /\ (vb'.starting_balance - vb.starting_balance) * 100
                            = profit * (IF growth THEN 100 ELSE 5)
                      /\ vb'.current_balance = vb'.starting_balance
                      /\ vb'.peak_balance = vb'.starting_balance
                      /\ vb'.max_drawdown = 0
                      /\ (vb'.total_withdrawn - vb.total_withdrawn) * 100
                            = profit * (IF growth THEN 0 ELSE 95)
                      /\ vb'.total_profit_generated = vb.total_profit_generated + profit
                      /\ vb'.reset_count = vb.reset_count + 1
                      /\ vb'.phase_1_resets = vb.phase_1_resets + (IF growth THEN 1 ELSE 0)
                      /\ vb'.phase_2_resets = vb.phase_2_resets + (IF growth THEN 0 ELSE 1)
                 ELSE /\ vb'.starting_balance = vb.starting_balance
                      /\ vb'.current_balance = vb.current_balance
                      /\ vb'.peak_balance = vb.peak_balance
                      /\ vb'.max_drawdown = vb.max_drawdown
                      /\ vb'.total_withdrawn = vb.total_withdrawn
                      /\ vb'.total_profit_generated = vb.total_profit_generated
                      /\ vb'.reset_count = vb.reset_count
                      /\ vb'.phase_1_resets = vb.phase_1_resets
                      /\ vb'.phase_2_resets = vb.phase_2_resets ]_vars

\* a reset fired exactly at 3 times the starting balance, in extraction phase
C9_Witness ==
    /\ vb.phase_2_resets = 1
    /\ vb.total_profit_generated = 2 * vb.initial_balance
    /\ vb.total_withdrawn > 0
    /\ returned["h1"].op = "close"

\* C10: starting_balance never decreases, and once the phase is extraction it
\* is extraction in every later state
C10_StartingBalanceNeverDecreases ==
    [][ /\ vb'.starting_balance >= vb.starting_balance
        /\ get_current_phase(vb) = "extraction" => get_current_phase(vb') = "extraction" ]_vars

\* the ledger went from growth to extraction by a reset and traded on
C10_Witness ==
    /\ vb.phase_1_resets >= 1
    /\ get_current_phase(vb) = "extraction"
    /\ vb.starting_balance > vb.initial_balance
    /\ vb.total_trades > vb.reset_count

\* the sync thread saw a ledger position the exchange no longer holds, fetched
\* the price p and called close_position(p, reason="external_close")
SyncFoundExternalClose(p) ==
    /\ pc["sync"] = "cp_acq"
    /\ frame["sync"].reason = "external_close"
    /\ frame["sync"].exit_price = p

\* the position is gone, the last trade record is an external_close record at
\* the exit price p, and the sync thread is in a later iteration
SyncBookedExternalClose(p) ==
    /\ vb.current_position = NoPosition
    /\ Len(vb.trade_history) > 0
    /\ vb.trade_history[Len(vb.trade_history)].close_reason = "external_close"
    /\ vb.trade_history[Len(vb.trade_history)].exit_price = p
    /\ pc["sync"] \in {"s_sleep", "s_lock"}

\* C11: when a sync iteration finds a position in the ledger and none on the
\* exchange and its price fetch succeeds, eventually the ledger position is
\* cleared, an external_close trade record at the fetched price is appended and
\* the sync thread goes on to its next iteration
C11_ExternalCloseIsBooked ==
    \A p \in Prices : SyncFoundExternalClose(p) ~> SyncBookedExternalClose(p)

\* the monitor thread is inside its loop: it will look at the position again
MonitorWatches == pc["mon"] = "m_top" /\ ~stop_monitoring

\* the ledger fields a recovery has no business with
LedgerBesidesPosition(v) == [ v EXCEPT !.current_position = NoPosition ]

\* the sync thread finishes an iteration that found no position in the ledger
\* and one on the exchange, with get_current_price answering p
SyncRecoveryStep(p) ==
    /\ pc["sync"] = "s_lock"
    /\ vb.current_position = NoPosition
    /\ sy.has_bitget_position
    /\ SyncReconcile({p})

\* the position the recovery has to leave: the exchange's side and quantity,
\* the fetched price as entry, take-profit 1.3% and stop-loss 0.75% away from it
RecoveredAsSpecified(pos, side, qty, p) ==
    /\ pos.side = side
    /\ pos.qty = qty
    /\ pos.entry_price = p
    /\ pos.tp_price = IF side = "long" THEN p * 10130 ELSE p * 9870
    /\ pos.sl_price = IF side = "long" THEN p * 9925 ELSE p * 10075

\* C12: a sync iteration that finds no position in the ledger and one on the
\* exchange leaves, when its price fetch succeeds, a position with the
\* exchange's side and quantity, the fetched price as entry price and TP/SL
\* derived from it, the snapshot persisted, a monitor watching it, and the
\* balance and all counters unchanged; when the fetch fails the ledger is
\* unchanged
C12_SyncRecovers ==
    [][ \A p \in PriceAnswers :
          SyncRecoveryStep(p) =>
            IF p = NoPrice
            THEN vb' = vb
            ELSE /\ vb'.current_position # NoPosition
                 /\ RecoveredAsSpecified(vb'.current_position, sy.bitget_side, sy.bitget_qty, p)
                 /\ saved'.current_position = vb'.current_position
                 /\ MonitorWatches'
                 /\ LedgerBesidesPosition(vb') = LedgerBesidesPosition(vb) ]_vars

\* the sync thread saw a ledger position of one side and an exchange position
\* of the other, fetched the price p and called
\* close_position(p, reason="side_mismatch")
SyncFoundSideMismatch(p, side, qty) ==
    /\ pc["sync"] = "cp_acq"
    /\ frame["sync"].reason = "side_mismatch"
    /\ frame["sync"].exit_price = p
    /\ sy.bitget_side = side
    /\ sy.bitget_qty = qty

\* a side_mismatch record at the exit price p is the last trade and the ledger
\* holds a recovered position of the exchange's side and quantity
SyncReplacedPosition(p, side, qty) ==
    /\ Len(vb.trade_history) > 0
    /\ vb.trade_history[Len(vb.trade_history)].close_reason = "side_mismatch"
    /\ vb.trade_history[Len(vb.trade_history)].exit_price = p
    /\ vb.current_position # NoPosition
    /\ vb.current_position.recovered
    /\ vb.current_position.side = side
    /\ vb.current_position.qty = qty
    /\ MonitorWatches

\* C13: when a sync iteration finds positions of different sides in the ledger
\* and on the exchange and its price fetch succeeds, eventually the ledger's
\* position is closed with a side_mismatch trade record at the fetched price
\* and the ledger holds a recovered position with the exchange's side and
\* quantity that a monitor watches
C13_SideMismatchIsReplaced ==
    \A p \in Prices : \A side \in Sides : \A qty \in ExternalQtys :
        SyncFoundSideMismatch(p, side, qty) ~> SyncReplacedPosition(p, side, qty)

\* the monitor thread looks at an open position and get_current_price answers p
MonitorFetches(p) ==
    /\ pc["mon"] = "m_top"
    /\ ~stop_monitoring
    /\ vb.current_position # NoPosition
    /\ MonitorIteration({p})

\* the monitor asked the exchange to close and called
\* close_position(entry_price, reason="emergency")
MonitorEmergency ==
    /\ pc["mon"] = "cp_acq"
    /\ frame["mon"].reason = "emergency"

\* the position is gone, its last trade record is an emergency record, and the
\* monitor has left its loop
EmergencyClosed ==
    /\ vb.current_position = NoPosition
    /\ pc["mon"] \in {"m_exit", "dead"}
    /\ Len(vb.trade_history) > 0
    /\ vb.trade_history[Len(vb.trade_history)].close_reason = "emergency"

\* C14: the monitor forces the emergency close (exchange close, ledger close
\* with reason emergency, termination) only once its count of consecutive
\* price-fetch failures exceeds MAX_PRICE_FAILURES and keeps watching while the
\* count is at or below it; a successful fetch resets the count to zero; and
\* once forced, the emergency close is eventually carried out
C14_EmergencyCloseAfterOutage ==
    /\ [][ MonitorFetches(NoPrice) =>
             /\ consecutive_failures' = consecutive_failures + 1
             /\ IF consecutive_failures' > MAX_PRICE_FAILURES
                THEN MonitorEmergency' /\ exchange' = NoPosition
                ELSE pc'["mon"] = "m_top" /\ exchange' = exchange ]_vars
    /\ [][ \A p \in Prices : MonitorFetches(p) => consecutive_failures' = 0 ]_vars
    /\ MonitorEmergency ~> EmergencyClosed

\* C15: whenever the ledger holds a position, the one monitor thread is alive
\* and has not left its loop, so that it keeps evaluating the position until
\* the position is cleared
C15_HeldPositionIsWatched ==
    vb.current_position # NoPosition => pc["mon"] \notin {"m_exit", "dead"}

\* the monitor thread runs its loop test, and what follows it, on a ledger
\* without a position
MonitorFindsNoPosition ==
    /\ pc["mon"] = "m_top"
    /\ vb.current_position = NoPosition
    /\ pc'["mon"] # "m_top"

\* C16: when the ledger position has been cleared by another thread, the
\* monitor's next iteration ends the monitor without a call to the exchange
\* and without a change of the ledger or of its snapshot
C16_MonitorEndsWithoutEffect ==
    [][ MonitorFindsNoPosition =>
          /\ pc'["mon"] = "m_exit"
          /\ exchange' = exchange
          /\ vb' = vb
          /\ saved' = saved
          /\ position_lock' = position_lock ]_vars

\* a handler's CLOSE signal cleared the position and the monitor has ended its
\* loop on it, with the position's one trade record in the history
C16_Witness ==
    /\ pc["mon"] = "m_exit"
    /\ vb.current_position = NoPosition
    /\ Len(vb.trade_history) = 1
    /\ vb.trade_history[1].close_reason = "manual_close"

\* the step is one of thread t
Acts(t) == pc'[t] # pc[t]

\* thread t writes the ledger in this step, or reads it: should_trade (line
\* 680), the position and the balance at the order (lines 711-728), and
\* trading_paused in resume_trading (line 757) are reads
TouchesLedger(t) ==
    /\ Acts(t)
    /\ \/ vb' # vb
       \/ pc[t] \in {"h_should", "h_order"}
       \/ t = "res"

\* C17: every read and every write of the position and of the account fields
\* is made under position_lock: no thread reads or writes the ledger while
\* another thread holds the lock
C17_LedgerAccessHoldsTheLock ==
    [][ \A t \in Threads :
          TouchesLedger(t) => position_lock \in {NoThread, t} ]_vars

\* handler h passed the debounce test on a clock reading less than
\* DEBOUNCE_SEC old and has not yet stored it in last_signal_time
AcceptedJustNow(h) == pc[h] = "h_set" /\ hl[h].age < DEBOUNCE_SEC

\* C18: of any two signals that pass the debounce test the later one arrives
\* at least DEBOUNCE_SEC after the earlier one, also when the requests are
\* handled concurrently: no two handlers have both passed the test on clock
\* readings less than DEBOUNCE_SEC old
C18_AcceptedSignalsAreSpaced ==
    \A h \in Handlers : \A g \in Handlers \ {h} :
        ~(AcceptedJustNow(h) /\ AcceptedJustNow(g))

\* no close_position call is between its booking (line 394) and its return
AtOperationBoundary == \A t \in Threads : pc[t] # "cp_post"

\* C19: at the completion of every state-changing operation the persisted
\* snapshot equals the account fields and the position in memory: what
\* STATE_FILE gives back is the ledger as it is
C19_SnapshotEqualsLedger ==
    AtOperationBoundary => load_state(saved) = vb

\* C20: save_state followed by load_state reproduces every account field,
\* daily_trade_count and last_trade_date among them, and the position
C20_SaveLoadRoundTrip ==
    load_state(save_state(vb)) = vb

\* thread t's close_position books the trade with this step (lines 344-394)
CloseBooks(t) == pc[t] = "cp_acq" /\ pc'[t] = "cp_post"

\* C21: peak_balance is never below current_balance; the booking of a close
\* makes peak_balance the maximum of its previous value and the new
\* current_balance, and max_drawdown the maximum of its previous value and
\* (peak_balance - current_balance) / peak_balance * 100; and a close that
\* triggers no reset returns with the three as the booking left them
C21_PeakAndDrawdownFollowBalance ==
    /\ [](vb.peak_balance >= vb.current_balance)
    /\ [][ \A t \in Threads :
             /\ CloseBooks(t) =>
                  /\ vb'.peak_balance = Max(vb.peak_balance, vb'.current_balance)
                  /\ vb'.max_drawdown =
                        Max(vb.max_drawdown,
                            ((vb'.peak_balance - vb'.current_balance) * 100)
                                \div vb'.peak_balance)
             /\ (CloseReturns(t) /\ vb'.reset_count = vb.reset_count) =>
                  /\ vb'.peak_balance = vb.peak_balance
                  /\ vb'.current_balance = vb.current_balance
                  /\ vb'.max_drawdown = vb.max_drawdown ]_vars

\* without a reset, a winning close raised the peak and a losing close after
\* it left the balance below the peak, with a drawdown on record
C21_Witness ==
    /\ returned["h1"].op = "close"
    /\ vb.reset_count = 0
    /\ vb.peak_balance > vb.initial_balance
    /\ vb.current_balance < vb.peak_balance
    /\ vb.max_drawdown > 0

\* quantity times the price move in the position's favour
QuantityTimesMove(side, entry_price, qty, exit_price) ==
    IF side = "long" THEN qty * (exit_price - entry_price)
                     ELSE qty * (entry_price - exit_price)

\* C22: the pnl of a close is quantity * (exit - entry) for a long and
\* quantity * (entry - exit) for a short, with no leverage factor: for the
\* open position and every exit price it is positive at or beyond the
\* take-profit price and negative at or beyond the stop-loss price, and a
\* close returns this value for the trade it recorded
C22_PnlIsQuantityTimesMove ==
    /\ [](vb.current_position # NoPosition =>
            \A p \in Prices :
               LET pos == vb.current_position
                   pnl == PnlOf(pos, p)
               IN  /\ pnl = QuantityTimesMove(pos.side, pos.entry_price, pos.qty, p)
                   /\ HitTp(pos, p) => pnl > 0
                   /\ HitSl(pos, p) => pnl < 0)
    /\ [][ \A h \in Handlers :
             CloseReturns(h) =>
                LET trade == vb'.trade_history[Len(vb'.trade_history)]
                IN  /\ returned'[h].op = "close"
                    /\ returned'[h].value =
                          QuantityTimesMove(trade.side, trade.entry_price,
                                            trade.qty, trade.exit_price)
                    /\ trade.pnl = returned'[h].value ]_vars

\* a short position was closed below its take-profit price and the close
\* returned a profit
C22_Witness ==
    /\ returned["h1"].op = "close"
    /\ returned["h1"].value > 0
    /\ Len(vb.trade_history) = 1
    /\ vb.trade_history[1].side = "short"
    /\ vb.trade_history[1].exit_price * 10000 <= vb.trade_history[1].entry_price * 9870

\* the /resume handler carries out its request with this step
ResumeReturns == pc["res"] = "r_set" /\ pc'["res"] = "idle"

\* C23: a resume with the right secret while trading is paused sets
\* trading_paused to false and max_drawdown to 0, persists the ledger, and
\* leaves every other account field and the position unchanged; a resume while
\* trading is not paused, or with a wrong secret, changes nothing
C23_ResumeClearsThePauseOnly ==
    [][ /\ ResumeReturns =>
             /\ vb' = [ vb EXCEPT !.trading_paused = FALSE, !.max_drawdown = 0 ]
             /\ saved' = save_state(vb')
             /\ exchange' = exchange
        /\ (pc["res"] = "idle" /\ pc'["res"] = "r_set") => vb.trading_paused
        /\ (pc["res"] = "idle" /\ pc'["res"] = "r_not_paused") => ~vb.trading_paused
        /\ (pc'["res"] # pc["res"] /\ ~ResumeReturns) =>
             /\ vb' = vb
             /\ saved' = saved
             /\ exchange' = exchange ]_vars

\* trading was paused by the emergency stop and has been resumed: the
\* drawdown tracker is back at zero with the balance still below the peak
C23_Witness ==
    /\ pc["res"] = "idle"
    /\ ~vb.trading_paused
    /\ vb.max_drawdown = 0
    /\ vb.current_balance < vb.peak_balance
    /\ vb.consecutive_losses >= 1

\* handler h's signal passed should_trade() and its price fetch fails
SignalPriceFails(h) ==
    /\ pc[h] = "h_should"
    /\ should_trade(vb, today)
    /\ RiskCheck(h, {NoPrice})

\* C24: a signal whose price fetch fails ends there: it places no order,
\* leaves the position, the balance, the counters and the trade history as
\* they are, and does not set trading_paused
C24_FailedPriceAbortsTheSignal ==
    [][ \A h \in Handlers :
          SignalPriceFails(h) =>
             /\ pc'[h] = "idle"
             /\ exchange' = exchange
             /\ vb' = vb
             /\ saved' = saved
             /\ position_lock' = position_lock ]_vars

\* a signal arrived while a position was held and was sent back by a failed
\* price fetch: the position is still there and trading is not paused
C24_Witness ==
    /\ pc["h1"] = "idle"
    /\ returned["h1"].op = "get_current_price"
    /\ vb.current_position # NoPosition
    /\ exchange # NoPosition
    /\ ~vb.trading_paused

\* handler h's open_position stores a position and returns True with this step
OpenSucceeds(h) ==
    /\ pc[h] = "op_acq"
    /\ pc'[h] = "idle"
    /\ vb.current_position = NoPosition
    /\ vb'.current_position # NoPosition

\* C25: the signal handler never opens a ledger position while trading is
\* paused, however its should_trade() test interleaves with the closes and
\* emergency stops of other threads
C25_NoOpenWhilePaused ==
    [][ \A h \in Handlers : OpenSucceeds(h) => ~vb.trading_paused ]_vars

\* the sync thread, holding position_lock, calls
\* close_position(p, reason="external_close") with this step
SyncCallsExternalClose ==
    /\ pc["sync"] = "s_lock"
    /\ pc'["sync"] = "cp_acq"
    /\ frame'["sync"].reason = "external_close"

\* C26: whenever the sync thread closes the ledger position as closed
\* externally, the exchange holds no position at that moment: the observation
\* it acts on is not older than the ledger state it is compared with
C26_ExternalCloseMeansExchangeIsFlat ==
    [][ SyncCallsExternalClose => exchange = NoPosition ]_vars

\* handler h's open_position call, made after the exchange accepted the order
\* of its signal, returns with this step
OpenReturns(h) == pc[h] = "op_acq" /\ pc'[h] = "idle"

\* the exchange rejects the order of handler h's signal with this step
OrderRejected(h) ==
    /\ pc[h] = "h_order"
    /\ hl[h].action \in {"BUY", "SELL"}
    /\ pc'[h] = "idle"

\* C27: every open order the exchange accepts is recorded: the open_position
\* call that follows returns True and stores a position of the order's side
\* and quantity, however the sync recovery and other signals interleave; and
\* for a rejected order the ledger stores no position
C27_AcceptedOrdersAreRecorded ==
    [][ \A h \in Handlers :
          /\ OpenReturns(h) =>
               /\ returned'[h] = [ op |-> "open", value |-> TRUE ]
               /\ vb'.current_position # NoPosition
               /\ vb'.current_position.side = (IF hl[h].action = "BUY" THEN "long" ELSE "short")
               /\ vb'.current_position.qty = hl[h].qty
               /\ ~vb'.current_position.recovered
          /\ OrderRejected(h) => vb' = vb ]_vars

\* the sum of the pnl of the records of a trade history
RECURSIVE SumPnl(_)
SumPnl(history) ==
    IF history = << >> THEN 0
    ELSE SumPnl(SubSeq(history, 1, Len(history) - 1)) + history[Len(history)].pnl

\* the number of records at the end of a trade history after its last winning
\* record
RECURSIVE TrailingLosses(_)
TrailingLosses(history) ==
    IF history = << >> THEN 0
    ELSE IF history[Len(history)].pnl > 0 THEN 0
    ELSE TrailingLosses(SubSeq(history, 1, Len(history) - 1)) + 1

\* C28: total_trades = winning_trades + losing_trades = the length of
\* trade_history, total_pnl is the sum of the pnl of all records,
\* consecutive_losses is the number of records after the last winning one, and
\* trade_history only grows by appending
C28_CountersMatchTheHistory ==
    /\ [](/\ vb.total_trades = vb.winning_trades + vb.losing_trades
          /\ vb.total_trades = Len(vb.trade_history)
          /\ vb.total_pnl = SumPnl(vb.trade_history)
          /\ vb.consecutive_losses = TrailingLosses(vb.trade_history))
    /\ [][ /\ Len(vb'.trade_history) >= Len(vb.trade_history)
           /\ SubSeq(vb'.trade_history, 1, Len(vb.trade_history)) = vb.trade_history ]_vars

\* two trades are on record, a winning one and after it a break-even or losing
\* one
C28_Witness ==
    /\ Len(vb.trade_history) = 2
    /\ vb.trade_history[1].pnl > 0
    /\ vb.trade_history[2].pnl <= 0
    /\ vb.winning_trades = 1
    /\ vb.consecutive_losses = 1

====
